---- MODULE Spec2Model ----
(***************************************************************************)
(* State-machine model of the teacherflow-api video job pipeline.          *)
(*                                                                         *)
(*   variant = "main"  : src/main.py, generate_video + process_video_job   *)
(*   variant = "multi" : src/videos/generation/generation_utils.py,        *)
(*                       generate_and_render_video + render_single_scene   *)
(*                                                                         *)
(* A deployment runs one variant; debug is DEBUG_MODE of that deployment.  *)
(* External capabilities (language model, speech synthesis, renderer) and  *)
(* file creation may fail; removing a file or directory the process owns   *)
(* is taken to succeed.                                                    *)
(***************************************************************************)
EXTENDS Integers, Sequences, FiniteSets, TLC

\* ------------------------------------------------------------ bounds
NumJobs == 2
NumScenes == 2
MaxVideos == 2
MaxSegs == 3

\* ------------------------------------------------------------ constants
max_retries == 2
None == 0
MAX_RETRIES == 2

JobIds == 1..NumJobs
SceneIds == 0..(NumScenes - 1)

PENDING     == "pending"
IN_PROGRESS == "in_progress"
COMPLETED   == "completed"
FAILED      == "failed"

JobMetadata(s, p, u) == [status |-> s, progress |-> p, videoUrl |-> u]

\* values of the local variable manim_code of process_video_job
Unbound == [kind |-> "unbound", gen |-> 0]
Empty   == [kind |-> "empty", gen |-> 0]
Code(k, a) == [kind |-> k, gen |-> a]
\* no call of generate_system_design yet
NoPrompt == [attempt |-> 0, kind |-> "none"]

VARIABLES
    variant,     \* which pipeline implementation is deployed
    debug,       \* DEBUG_MODE
    jobs,        \* main.py: the in-memory job table, job id -> JobMetadata
    pc,          \* position of each job's request / background task
    attempt,     \* process_video_job: attempt
    manim_code,  \* process_video_job: manim_code
    last_code,   \* process_video_job: last_code (None or a code value)
    last_error,  \* process_video_job: last_error
    audio,       \* the job's audio file exists under AUDIO_DIR
    tmp,         \* the job's tempfile.TemporaryDirectory exists
    files,       \* video files on disk, as <<directory, video_id>>
    renders,     \* history: renderer invocations made for the job
    prompt,      \* history: the prompt of the job's latest call of
                 \* generate_system_design and the attempt it was made in
    hist,        \* history: what kinds of failure the job has met
    gpc,         \* generate_and_render_video: position
    gtmp,        \* the directory made by tempfile.mkdtemp exists
    gprogress,   \* last value handed to update_progress
    wpc,         \* render_single_scene, per scene: "idle", "run", "done", "failed"
    scene_attempt, \* render_single_scene: scene_attempt
    current_code,  \* render_single_scene: current_code
    wrenders,    \* history: renderer invocations made for the scene
    whist,       \* history: what kinds of failure the scene has met
    wfixes,      \* history: calls of retry_manim_scene_generation for the
                 \* scene
    wnofix,      \* history: the renderer invocation after which
                 \* retry_manim_scene_generation gave no code, 0 if none
    debug_files, \* per scene: the fail-/success- files in generation_dir
    werror,      \* per scene: the exception its future holds, "none" if none
    gerror,      \* what render_scenes_in_parallel raised: <<scene, exception>>
    nscenes,     \* len(video_code.scenes), 0 before the scenes are generated
    segs,        \* per scene: number of videos its worker returned
    finished,    \* history: the scenes in the order their workers ended
    rendered,    \* the list render_scenes_in_parallel returned
    assembled,   \* history: concatenate_scenes has been called
    gmux,        \* history: invocations of ffmpeg by concatenate_scenes
    gsteps,      \* history: the pipeline steps in the order they started
    gdone,       \* history: the pipeline steps that have succeeded
    lpc,         \* video_utils.generate_and_render_video: position
    lattempt,    \* video_utils: attempt
    lgens,       \* history: calls of generate_system_design
    lrenders,    \* history: renderer invocations
    lsegs,       \* len(rendered_videos) of the latest attempt
    lmux,        \* the latest concatenate_scenes call ran ffmpeg
    lasmfail,    \* history: ffmpeg has exited non-zero
    ltmp,        \* the TemporaryDirectory of video_utils exists
    lprogress,   \* last value handed to update_progress
    upc,         \* which function is exercised on its own, and how far
    segments,    \* concatenate_scenes: rendered_videos, as [dur, voiced]
    track,       \* concatenate_scenes: the audio parts of filter_complex
    speech_attempt, \* generate_speech: attempt
    scalls,      \* history: calls of client.audio.speech.create
    sresult,     \* generate_speech: "none", "true", "false" or "raised"
    sallfail,    \* history: every synthesis call so far has failed
    sioat,       \* history: the synthesis call whose audio could not be
                 \* written to disk, 0 if none
    nscripts,    \* generate_audio: len(script_contents)
    aidx,        \* generate_audio: i + 1 of the loop
    audio_files, \* generate_audio: the AudioFile list built so far
    afailed,     \* history: generate_speech failed for some scene
    design,      \* generate_concepts: what the completion call produces
    content,     \* generate_concepts: the system design it returned
    vexists, vfile,  \* streaming: the video file and its bytes
    range_header,    \* streaming: the Range header of the request
    responses,   \* streaming: the answers of get_video_file_response
    chunks,      \* streaming: the results of read_video_chunk
    filenames,   \* delete_videos: the request body
    disk,        \* delete_videos: the files on disk
    disk0,       \* history: the files on disk when the request arrived
    dtouched,    \* history: positions of the filenames whose path was
                 \* looked up on disk
    results,     \* delete_videos: the result list
    spc,         \* scene workers on disk, per scene: "off", "mkdir", "write",
                 \* "render", "collect", "done" or "failed"
    sattempt,    \* scene workers on disk: scene_attempt
    sdirs,       \* the worker directories under the temporary directory
    scratch,     \* the files under the worker directories: path -> the
                 \* scene and attempt whose code the file holds or shows
    sreads,      \* history, per scene: what the renderer it started read
    sgot,        \* history, per scene: the videos its worker returned
    loop,        \* the job whose coroutine holds the event loop in a
                 \* blocking call, or None
    reply        \* the last answer of get_job_status: <<job id, 404>> or
                 \* <<job id, 200, the record returned>>

multiVars == <<gpc, gtmp, gprogress, wpc, scene_attempt, current_code,
               wrenders, whist, wfixes, wnofix, debug_files, werror, gerror,
               nscenes, segs, finished, rendered, assembled,
               gmux, gsteps, gdone>>
jobVars == <<jobs, pc, attempt, manim_code, last_code, last_error, audio,
             tmp, files, renders, prompt, hist>>
legacyVars == <<lpc, lattempt, lgens, lrenders, lsegs, lmux, lasmfail, ltmp,
                lprogress>>
concatVars == <<segments, track>>
speechVars == <<speech_attempt, scalls, sresult, sallfail, sioat>>
audioVars == <<nscripts, aidx, audio_files, afailed>>
planVars == <<design, content>>
streamVars == <<vexists, vfile, range_header, responses, chunks>>
deleteVars == <<filenames, disk, disk0, dtouched, results>>
workerVars == <<spc, sattempt, sdirs, scratch, sreads, sgot>>
unitVars == <<upc, concatVars, speechVars, audioVars, planVars, streamVars,
              deleteVars, workerVars>>
loopVars == <<loop, reply>>
vars == <<variant, debug, loopVars, jobVars, multiVars, legacyVars, unitVars>>

\* ------------------------------------------------------------ main.py
JobInit ==
    /\ jobs = [j \in {} |-> JobMetadata(PENDING, 0, None)]
    /\ pc = [j \in JobIds |-> "idle"]
    /\ attempt = [j \in JobIds |-> 0]
    /\ manim_code = [j \in JobIds |-> Unbound]
    /\ last_code = [j \in JobIds |-> Unbound]
    /\ last_error = [j \in JobIds |-> "none"]
    /\ audio = [j \in JobIds |-> FALSE]
    /\ tmp = [j \in JobIds |-> FALSE]
    /\ files = {}
    /\ renders = [j \in JobIds |-> 0]
    /\ prompt = [j \in JobIds |-> NoPrompt]
    /\ hist = [j \in JobIds |-> "crashes"]
    /\ loop = None
    /\ reply = <<>>

\* no coroutine is inside a blocking call: the event loop can run a ready
\* task or handler
LoopFree == loop = None

\* update_progress sleeping with time.sleep: the coroutine keeps the loop
NoYield(j) == loop' = j
\* await asyncio.sleep(0.5) in update_progress: the coroutine is suspended
\* and the event loop is free for other tasks and handlers
Yield(j) == loop' = None

\* uuid4(): a fresh identifier
FreshId(j) == pc[j] = "idle" /\ \A k \in JobIds : k < j => pc[k] # "idle"

update_progress_all(j, p) ==
    jobs' = [k \in DOMAIN jobs |->
                JobMetadata(IN_PROGRESS, p, jobs[k].videoUrl)]

update_progress(j, p) ==
    jobs' = [jobs EXCEPT ![j] = JobMetadata(IN_PROGRESS, p, jobs[j].videoUrl)]

\* a failure that records the status only
SetFailedKeepsProgress(j) ==
    jobs' = [jobs EXCEPT ![j] =
                JobMetadata(FAILED, jobs[j].progress, jobs[j].videoUrl)]

\* a failed job dropped from the job table
SetFailedRemoves(j) ==
    jobs' = [k \in DOMAIN jobs \ {j} |-> jobs[k]]

SetFailed(j) ==
    jobs' = [jobs EXCEPT ![j] = JobMetadata(FAILED, 0, jobs[j].videoUrl)]

\* the audio clean-up blocks: unlink the job's audio file if it exists
CleanupAudio(j) == audio' = [audio EXCEPT ![j] = FALSE]

Goto(j, l) == pc' = [pc EXCEPT ![j] = l]

Mixed(j) == hist' = [hist EXCEPT ![j] = "mixed"]

\* output_path and the public path VIDEOS_DIR / video_filename of job j
OutputPath(j) == IF debug THEN <<"code", j>> ELSE <<"videos", j>>
PublicPath(j) == <<"videos", j>>

\* shutil.copy2(src, dst) raises SameFileError when both name one file
SameFile(src, dst) == src = dst

\* line 251 / 283 of main.py: if attempt == max_retries
IsLastAttemptLate(a) == a = max_retries + 1
IsLastAttempt(a) == a = max_retries

\* hist[j] = "crashes": the job has met nothing but renderer crashes;
\* "found0": its first attempt located and moved the rendered file, and no
\* file-system fault has been met; "mixed": anything else.
NextHist(j, kind, fault) ==
    IF fault THEN "mixed"
    ELSE IF kind = "cpe" \/ hist[j] = "found0" THEN hist[j]
    ELSE "mixed"

\* The two inner handlers of the retry loop: except CalledProcessError
\* (kind "cpe") and except Exception (kind "exc").  code is manim_code as
\* the handler sees it, hw whether the debug fail-file can be written.
\* fault whether the exception handled is a file-system fault.
InnerHandler(j, code, kind, hw, fault) ==
    LET writeRaises == debug /\ (code = Unbound \/ ~hw)
        bindRaises  == kind = "exc" /\ code = Unbound
    IN  /\ hist' = [hist EXCEPT ![j] =
                       NextHist(j, kind, fault \/ (debug /\ code # Unbound /\ ~hw))]
        /\ IF writeRaises
             THEN /\ Goto(j, "outer")
                  /\ UNCHANGED <<jobs, audio, attempt, last_code, last_error>>
           ELSE IF IsLastAttempt(attempt[j])
             THEN /\ SetFailed(j)
                  /\ CleanupAudio(j)
                  /\ Goto(j, "outer")
                  /\ UNCHANGED <<attempt, last_code, last_error>>
           ELSE IF bindRaises
             THEN /\ Goto(j, "outer")
                  /\ UNCHANGED <<jobs, audio, attempt, last_code, last_error>>
           ELSE /\ last_error' = [last_error EXCEPT ![j] =
                                     IF kind = "cpe" THEN "stderr" ELSE "message"]
                /\ last_code' = [last_code EXCEPT ![j] = code]
                /\ attempt' = [attempt EXCEPT ![j] = attempt[j] + 1]
                /\ Goto(j, "loop")
                /\ UNCHANGED <<jobs, audio>>

\* generate_video up to the await of generate_and_prepare_audio_files
GenerateVideo(j) ==
    /\ LoopFree
    /\ variant \in {"main", "both"}
    /\ FreshId(j)
    /\ jobs' = [k \in DOMAIN jobs \cup {j} |->
                  IF k = j THEN JobMetadata(PENDING, 0, None) ELSE jobs[k]]
    /\ \E concepts \in {"ok", "raise"}, script \in {"ok", "raise"} :
          IF concepts = "ok" /\ script = "ok"
          THEN Goto(j, "audio")
          ELSE Goto(j, "rejected")
    /\ UNCHANGED <<variant, debug, loopVars, legacyVars, unitVars, multiVars, attempt, manim_code, last_code, last_error,
                   audio, tmp, files, renders, prompt, hist>>

\* generate_and_prepare_audio_files: the audio file of the one scene, an
\* empty list, or an exception
AudioOutcomes == {"file", "empty", "raise"}

\* generate_video from the return of the audio step to its own return
AudioReady(j) ==
    /\ LoopFree
    /\ pc[j] = "audio"
    /\ \E res \in AudioOutcomes, jsonw \in BOOLEAN :
          IF res = "file" /\ (~debug \/ jsonw)
          THEN /\ audio' = [audio EXCEPT ![j] = TRUE]
               /\ Goto(j, "queued")
          ELSE /\ audio' = [audio EXCEPT ![j] = FALSE]
               /\ Goto(j, "rejected")
    /\ UNCHANGED <<variant, debug, loopVars, legacyVars, unitVars, multiVars, jobs, attempt, manim_code, last_code,
                   last_error, tmp, files, renders, prompt, hist>>

\* process_video_job, start: update_progress(20)
StartTask(j) ==
    /\ LoopFree
    /\ pc[j] = "queued"
    /\ update_progress(j, 20)
    /\ Goto(j, "p20")
    /\ Yield(j)
    /\ UNCHANGED <<variant, debug, reply, legacyVars, unitVars, multiVars, attempt, manim_code, last_code, last_error,
                   audio, tmp, files, renders, prompt, hist>>

\* process_video_job, locals and debug directories, update_progress(40)
Setup(j) ==
    /\ LoopFree
    /\ pc[j] = "p20"
    /\ \E mk \in BOOLEAN :
          IF debug /\ ~mk
          THEN /\ Goto(j, "outer")
               /\ Mixed(j)
               /\ UNCHANGED jobs
          ELSE /\ update_progress(j, 40)
               /\ Goto(j, "p40")
               /\ UNCHANGED hist
    /\ attempt' = [attempt EXCEPT ![j] = 0]
    /\ last_code' = [last_code EXCEPT ![j] = Unbound]
    /\ last_error' = [last_error EXCEPT ![j] = "none"]
    /\ Yield(j)
    /\ UNCHANGED <<variant, debug, reply, legacyVars, unitVars, multiVars, manim_code, audio, tmp, files, renders, prompt>>

\* what generate_system_design can give back
\* generate_system_design, lines 222-235: the choice of the prompt by
\* "if previous_code and error_message"; None and "" are false
PromptFor(previous_code, error_message) ==
    IF previous_code.kind \notin {"unbound", "empty"} /\ error_message # "none"
    THEN "repair" ELSE "initial"

GenOutcomes == {"scene", "noscene", "empty", "raise"}

\* loop head, generate_system_design, update_progress(60)
Generate(j) ==
    /\ LoopFree
    /\ pc[j] \in {"p40", "loop"}
    /\ IF attempt[j] > max_retries
       THEN /\ Goto(j, "returned")
            /\ UNCHANGED <<jobs, attempt, manim_code, last_code, last_error,
                           audio, hist, prompt>>
       ELSE \E g \in GenOutcomes, hw \in BOOLEAN :
           /\ prompt' = IF g = "raise" THEN prompt
                        ELSE [prompt EXCEPT ![j] =
                                [attempt |-> attempt[j],
                                 kind |-> PromptFor(last_code[j], last_error[j])]]
           /\ CASE g = "raise" ->
                     /\ InnerHandler(j, manim_code[j], "exc", hw, FALSE)
                     /\ UNCHANGED manim_code
                [] g = "empty" ->
                     /\ manim_code' = [manim_code EXCEPT ![j] = Empty]
                     /\ InnerHandler(j, Empty, "exc", hw, FALSE)
                [] OTHER ->
                     /\ manim_code' = [manim_code EXCEPT ![j] = Code(g, attempt[j])]
                     /\ update_progress(j, 60)
                     /\ Goto(j, "p60")
                     /\ UNCHANGED <<attempt, last_code, last_error, audio, hist>>
    /\ Yield(j)
    /\ UNCHANGED <<variant, debug, reply, legacyVars, unitVars, multiVars, tmp, files, renders>>

\* Scene class lookup, temporary directory, scene.py, update_progress(70)
Prepare(j) ==
    /\ LoopFree
    /\ pc[j] = "p60"
    /\ \E w \in BOOLEAN, hw \in BOOLEAN :
          IF manim_code[j].kind = "scene" /\ w
          THEN /\ tmp' = [tmp EXCEPT ![j] = TRUE]
               /\ update_progress(j, 70)
               /\ Goto(j, "p70")
               /\ UNCHANGED <<attempt, last_code, last_error, audio, hist>>
          ELSE /\ tmp' = [tmp EXCEPT ![j] = FALSE]
               /\ InnerHandler(j, manim_code[j], "exc", hw,
                               manim_code[j].kind = "scene")
    /\ Yield(j)
    /\ UNCHANGED <<variant, debug, reply, legacyVars, unitVars, multiVars, manim_code, files, renders, prompt>>

\* subprocess.run starts the renderer and waits for it inside the coroutine
RenderStart(j) ==
    /\ LoopFree
    /\ pc[j] = "p70"
    /\ renders' = [renders EXCEPT ![j] = renders[j] + 1]
    /\ loop' = j
    /\ Goto(j, "rendering")
    /\ UNCHANGED <<variant, debug, reply, multiVars, legacyVars, unitVars,
                   jobs, attempt, manim_code, last_code, last_error, audio,
                   tmp, files, hist, prompt>>

\* the renderer has exited: check=True, update_progress(80)
RenderExit(j) ==
    /\ pc[j] = "rendering"
    /\ Yield(j)
    /\ \E r \in {"ok", "crash"}, hw \in BOOLEAN :
          IF r = "ok"
          THEN /\ update_progress(j, 80)
               /\ Goto(j, "p80")
               /\ UNCHANGED <<attempt, last_code, last_error, audio, hist, tmp>>
          ELSE /\ tmp' = [tmp EXCEPT ![j] = FALSE]
               /\ InnerHandler(j, manim_code[j], "cpe", hw, FALSE)
    /\ UNCHANGED <<variant, debug, reply, multiVars, legacyVars, unitVars,
                   manim_code, files, renders, prompt>>

\* get_job_status: 404 for an id that is not in the table
GetJobStatus(q) ==
    /\ variant = "main"
    /\ LoopFree
    /\ reply' = IF q \notin DOMAIN jobs THEN <<q, 404>>
                 ELSE <<q, 200, jobs[q]>>
    /\ UNCHANGED <<variant, debug, loop, jobVars, multiVars, legacyVars,
                   unitVars>>

\* glob for the rendered file, shutil.move to output_path, update_progress(90)
Locate(j) ==
    /\ LoopFree
    /\ pc[j] = "p80"
    /\ \E found \in BOOLEAN, mv \in BOOLEAN, hw \in BOOLEAN :
          IF found /\ mv
          THEN /\ files' = files \cup {OutputPath(j)}
               /\ update_progress(j, 90)
               /\ Goto(j, "p90")
               /\ hist' = [hist EXCEPT ![j] =
                              IF attempt[j] = 0 THEN "found0" ELSE hist[j]]
               /\ UNCHANGED <<attempt, last_code, last_error, audio, tmp>>
          ELSE /\ tmp' = [tmp EXCEPT ![j] = FALSE]
               /\ InnerHandler(j, manim_code[j], "exc", hw, found)
               /\ UNCHANGED files
    /\ Yield(j)
    /\ UNCHANGED <<variant, debug, reply, legacyVars, unitVars, multiVars, manim_code, renders, prompt>>

\* success file (debug), shutil.copy2 to the public path, COMPLETED
Place(j) ==
    /\ LoopFree
    /\ pc[j] = "p90"
    /\ \E sw \in BOOLEAN, cp \in BOOLEAN, hw \in BOOLEAN :
          IF (debug => sw) /\ cp /\ ~SameFile(OutputPath(j), PublicPath(j))
          THEN /\ files' = files \cup {PublicPath(j)}
               /\ jobs' = [jobs EXCEPT ![j] = JobMetadata(COMPLETED, 100, j)]
               /\ Goto(j, "completed")
               /\ UNCHANGED <<attempt, last_code, last_error, audio, hist, tmp>>
          ELSE /\ tmp' = [tmp EXCEPT ![j] = FALSE]
               /\ InnerHandler(j, manim_code[j], "exc", hw,
                               ~SameFile(OutputPath(j), PublicPath(j)))
               /\ UNCHANGED files
    /\ UNCHANGED <<variant, debug, loopVars, legacyVars, unitVars, multiVars, manim_code, renders, prompt>>

FinishNoReturn(j) ==
    /\ LoopFree
    /\ pc[j] = "completed"
    /\ CleanupAudio(j)
    /\ tmp' = [tmp EXCEPT ![j] = FALSE]
    /\ Goto(j, "loop")
    /\ UNCHANGED <<variant, debug, loopVars, legacyVars, unitVars, multiVars, jobs, attempt, manim_code,
                   last_code, last_error, files, renders, prompt, hist>>

\* audio clean-up after success, return, exit of the temporary directory
Finish(j) ==
    /\ LoopFree
    /\ pc[j] = "completed"
    /\ CleanupAudio(j)
    /\ tmp' = [tmp EXCEPT ![j] = FALSE]
    /\ Goto(j, "returned")
    /\ UNCHANGED <<variant, debug, loopVars, legacyVars, unitVars, multiVars, jobs, attempt, manim_code, last_code,
                   last_error, files, renders, prompt, hist>>

OuterHandlerNoCleanup(j) ==
    /\ LoopFree
    /\ pc[j] = "outer"
    /\ SetFailed(j)
    /\ Goto(j, "raised")
    /\ UNCHANGED <<variant, debug, loopVars, legacyVars, unitVars, multiVars, attempt, manim_code, last_code,
                   last_error, audio, tmp, files, renders, prompt, hist>>

\* the outer except Exception of process_video_job, ending in raise
OuterHandler(j) ==
    /\ LoopFree
    /\ pc[j] = "outer"
    /\ SetFailed(j)
    /\ CleanupAudio(j)
    /\ Goto(j, "raised")
    /\ UNCHANGED <<variant, debug, loopVars, legacyVars, unitVars, multiVars, attempt, manim_code, last_code, last_error,
                   tmp, files, renders, prompt, hist>>

\* ------------------------- videos/generation/generation_utils.py
MultiInit ==
    /\ gpc = "new"
    /\ gtmp = FALSE
    /\ gprogress = 0
    /\ wpc = [s \in SceneIds |-> "idle"]
    /\ scene_attempt = [s \in SceneIds |-> 0]
    /\ current_code = [s \in SceneIds |-> Code("scene", 0)]
    /\ wrenders = [s \in SceneIds |-> 0]
    /\ whist = [s \in SceneIds |-> "crashes"]
    /\ wfixes = [s \in SceneIds |-> 0]
    /\ wnofix = [s \in SceneIds |-> 0]
    /\ debug_files = [s \in SceneIds |-> {}]
    /\ werror = [s \in SceneIds |-> "none"]
    /\ gerror = <<>>
    /\ nscenes = 0
    /\ segs = [s \in SceneIds |-> 0]
    /\ finished = <<>>
    /\ rendered = <<>>
    /\ assembled = FALSE
    /\ gmux = 0
    /\ gsteps = <<>>
    /\ gdone = {}

\* the finally clause of generate_and_render_video
RemoveTempDir == gtmp' = FALSE

\* setup_directories: debug directories, mkdtemp, media and media/audio.
\* The result is whether the temporary directory exists afterwards and
\* whether the call returned.
SetupDirectories(dbgmk, mkd, media, aud) ==
    IF debug /\ ~dbgmk THEN [made |-> FALSE, ok |-> FALSE]
    ELSE IF ~mkd THEN [made |-> FALSE, ok |-> FALSE]
    ELSE IF ~media \/ ~aud THEN [made |-> TRUE, ok |-> FALSE]
    ELSE [made |-> TRUE, ok |-> TRUE]

sceneVars == <<wpc, scene_attempt, current_code, wrenders, whist, wfixes, wnofix,
               debug_files, werror, segs,
               finished>>
asmVars == <<rendered, assembled, gmux, gerror>>
stepVars == <<gsteps, gdone>>

\* a pipeline step starts / has succeeded
StepStarts(st) == gsteps' = gsteps \o st
StepDone(ok, st) == gdone' = IF ok THEN gdone \cup {st} ELSE gdone

\* prepare_video_prerequisites: generate_video_plan, then the plan is
\* validated as a VideoPlan; update_progress(10), (20), (30)
MPrepare ==
    /\ variant = "multi"
    /\ gpc = "new"
    /\ StepStarts(<<"plan">>)
    /\ \E gen \in BOOLEAN, valid \in BOOLEAN :
          /\ StepDone(gen /\ valid, "plan")
          /\ gprogress' = IF gen /\ valid THEN 30 ELSE IF gen THEN 20 ELSE 10
          /\ gpc' = IF gen /\ valid THEN "start" ELSE "raised"
    /\ UNCHANGED <<variant, debug, loopVars, legacyVars, unitVars, jobVars,
                   sceneVars, asmVars, nscenes, gtmp>>

\* the scenes of video_code.scenes, numbered as enumerate numbers them
JobScenes == {s \in SceneIds : s < nscenes}

\* generate_and_render_video: setup_directories, debug plan file,
\* update_progress(40)
MSetup ==
    /\ variant = "multi"
    /\ gpc = "start"
    /\ \E dbgmk \in BOOLEAN, mkd \in BOOLEAN, media \in BOOLEAN,
          aud \in BOOLEAN, jw \in BOOLEAN :
          LET d == SetupDirectories(dbgmk, mkd, media, aud)
          IN  IF ~d.ok
              THEN /\ gtmp' = d.made
                   /\ gpc' = "raised"
                   /\ UNCHANGED gprogress
              ELSE IF debug /\ ~jw
              THEN /\ RemoveTempDir
                   /\ gpc' = "raised"
                   /\ UNCHANGED gprogress
              ELSE /\ gtmp' = TRUE
                   /\ gprogress' = 40
                   /\ gpc' = "p40"
    /\ UNCHANGED <<variant, debug, loopVars, legacyVars, unitVars, jobVars,
                   sceneVars, asmVars, nscenes, stepVars>>

\* generate_audio, update_progress(60)
MAudio ==
    /\ gpc = "p40"
    /\ StepStarts(<<"audio">>)
    /\ \E ok \in BOOLEAN :
          /\ StepDone(ok, "audio")
          /\ IF ok
             THEN /\ gprogress' = 60
                  /\ gpc' = "p60"
                  /\ UNCHANGED gtmp
             ELSE /\ RemoveTempDir
                  /\ gpc' = "raised"
                  /\ UNCHANGED gprogress
    /\ UNCHANGED <<variant, debug, loopVars, legacyVars, unitVars, jobVars,
                   sceneVars, asmVars, nscenes>>

\* generate_manim_scenes, then every scene is handed to the process pool
MGenerateFrom(at) ==
    /\ gpc \in at
    /\ \E g \in {"scenes", "empty", "raise"}, n \in 1..NumScenes :
          /\ StepStarts(IF g = "scenes" THEN <<"code", "render">>
                                        ELSE <<"code">>)
          /\ StepDone(g = "scenes", "code")
          /\ IF g = "scenes"
             THEN /\ nscenes' = n
                  /\ wpc' = [s \in SceneIds |-> IF s < n THEN "run" ELSE "idle"]
                  /\ gpc' = "rendering"
                  /\ UNCHANGED gtmp
             ELSE /\ RemoveTempDir
                  /\ gpc' = "raised"
                  /\ UNCHANGED <<wpc, nscenes>>
    /\ UNCHANGED <<variant, debug, loopVars, legacyVars, unitVars, jobVars, gprogress, scene_attempt,
                   current_code, wrenders, whist, wfixes, wnofix,
                   debug_files, werror, segs, finished,
                   asmVars>>

\* generate_manim_scenes not awaiting generate_audio
MGenerateEarly == MGenerateFrom({"p40", "p60"})
\* generate_manim_scenes runs once generate_audio has returned
MGenerate == MGenerateFrom({"p60"})

\* lines 127, 145, 160 of generation_utils.py: scene_attempt == max_retries
SceneIsLastAttemptEarly(a) == a = max_retries - 1
SceneIsLastAttempt(a) == a = max_retries

\* line 143 of generation_utils.py: if not scene_videos
NoSceneVideosNever(n) == FALSE
NoSceneVideos(n) == n = 0

SceneOuterHandlerShared(s) ==
    IF SceneIsLastAttempt(scene_attempt[s])
    THEN /\ wpc' = [wpc EXCEPT ![s] = "failed"]
         /\ UNCHANGED scene_attempt
    ELSE /\ scene_attempt' = [t \in SceneIds |-> scene_attempt[t] + 1]
         /\ UNCHANGED wpc

\* an outer handler that goes on after the last attempt
SceneOuterHandlerNoRaise(s) ==
    /\ scene_attempt' = [scene_attempt EXCEPT ![s] = scene_attempt[s] + 1]
    /\ UNCHANGED wpc

\* the outer except Exception of render_single_scene
SceneOuterHandler(s) ==
    IF SceneIsLastAttempt(scene_attempt[s])
    THEN /\ wpc' = [wpc EXCEPT ![s] = "failed"]
         /\ UNCHANGED scene_attempt
    ELSE /\ scene_attempt' = [scene_attempt EXCEPT ![s] = scene_attempt[s] + 1]
         /\ UNCHANGED wpc

\* the worker of scene s has not yet entered its retry loop
FirstIteration(s) ==
    scene_attempt[s] = 0 /\ wrenders[s] = 0 /\ whist[s] = "crashes"

\* what one pass of render_single_scene comes to, from what its steps do
Outcome(s, mk, w, r, n, dw) ==
    IF FirstIteration(s) /\ ~mk THEN "mkdir"
    ELSE IF scene_attempt[s] > max_retries THEN "after_loop"
    ELSE IF ~w THEN "write"
    ELSE IF r = "crash" THEN (IF debug /\ ~dw THEN "crash_nodebug" ELSE "crash")
    ELSE IF NoSceneVideos(n) THEN "no_video"
    ELSE IF debug /\ ~dw THEN "ok_nodebug" ELSE "ok"

\* the pass ran the renderer
Rendered(o) == o \in {"crash", "crash_nodebug", "no_video", "ok", "ok_nodebug"}

\* the pass called retry_manim_scene_generation (lines 126-131)
FixCalled(s, o) == o = "crash" /\ ~SceneIsLastAttempt(scene_attempt[s])

\* the scene_code render_single_scene was called with
scene_code == Code("scene", 0)

\* a file written by save_debug_files; rendered is history: the code the
\* renderer ran in that attempt
DebugFile(kind, k, code, ran) ==
    [kind |-> kind, attempt |-> k, code |-> code, rendered |-> ran]

\* save_debug_files as render_single_scene calls it: with scene_code after
\* a crash (line 122), with current_code after a success (line 154)
DebugFiles(s, o) ==
    IF debug /\ o = "crash"
    THEN {DebugFile("fail", scene_attempt[s] + 1, scene_code, current_code[s])}
    ELSE IF debug /\ o = "ok"
    THEN {DebugFile("success", scene_attempt[s] + 1, current_code[s],
                    current_code[s])}
    ELSE {}

\* the exception render_single_scene ends with when outcome o is its last:
\* the CalledProcessError of line 124, the HTTPException of line 146, or
\* the error of a file operation
Raised(o) ==
    CASE o = "crash" -> "CalledProcessError"
      [] o = "no_video" -> "HTTPException"
      [] OTHER -> "Exception"

\* render_single_scene: worker_dir.mkdir on entry, then one iteration of its
\* retry loop.  mk: the worker directory is made; w: the scene file is
\* written; r: the renderer's exit; n: how many Scene_*.mp4 are found;
\* fix: what retry_manim_scene_generation gives; dw: save_debug_files works.
SceneAttempt(s) ==
    /\ wpc[s] = "run"
    /\ \E mk \in BOOLEAN, w \in BOOLEAN, r \in {"ok", "crash"},
          n \in 0..MaxVideos, fix \in {"code", "none", "raise"},
          dw \in BOOLEAN :
          /\ IF FirstIteration(s) /\ ~mk
             THEN /\ wpc' = [wpc EXCEPT ![s] = "failed"]
                  /\ whist' = [whist EXCEPT ![s] = "mixed"]
                  /\ UNCHANGED <<scene_attempt, current_code, wrenders>>
             ELSE IF scene_attempt[s] > max_retries
             THEN /\ wpc' = [wpc EXCEPT ![s] = "failed"]
                  /\ UNCHANGED <<scene_attempt, current_code, wrenders, whist>>
             ELSE IF ~w
             THEN /\ SceneOuterHandler(s)
                  /\ whist' = [whist EXCEPT ![s] = "mixed"]
                  /\ UNCHANGED <<current_code, wrenders>>
             ELSE /\ wrenders' = [wrenders EXCEPT ![s] = wrenders[s] + 1]
                  /\ CASE r = "crash" /\ debug /\ ~dw ->
                             /\ SceneOuterHandler(s)
                             /\ whist' = [whist EXCEPT ![s] = "mixed"]
                             /\ UNCHANGED current_code
                       [] r = "crash" /\ (~debug \/ dw) ->
                             IF SceneIsLastAttempt(scene_attempt[s])
                             THEN /\ SceneOuterHandler(s)
                                  /\ UNCHANGED <<current_code, whist>>
                             ELSE IF fix = "code"
                             THEN /\ current_code' = [current_code EXCEPT ![s] =
                                         Code("scene", current_code[s].gen + 1)]
                                  /\ scene_attempt' = [scene_attempt EXCEPT ![s] =
                                         scene_attempt[s] + 1]
                                  /\ UNCHANGED <<wpc, whist>>
                             ELSE /\ SceneOuterHandler(s)
                                  /\ UNCHANGED <<current_code, whist>>
                       [] r = "ok" /\ NoSceneVideos(n) ->
                             /\ IF SceneIsLastAttempt(scene_attempt[s])
                                THEN SceneOuterHandler(s)
                                ELSE /\ scene_attempt' = [scene_attempt EXCEPT ![s] =
                                            scene_attempt[s] + 1]
                                     /\ UNCHANGED wpc
                             /\ whist' = [whist EXCEPT ![s] = "mixed"]
                             /\ UNCHANGED current_code
                       [] r = "ok" /\ ~NoSceneVideos(n) /\ debug /\ ~dw ->
                             /\ SceneOuterHandler(s)
                             /\ whist' = [whist EXCEPT ![s] = "mixed"]
                             /\ UNCHANGED current_code
                       [] OTHER ->
                             /\ wpc' = [wpc EXCEPT ![s] = "done"]
                             /\ UNCHANGED <<scene_attempt, current_code, whist>>
          /\ segs' = IF wpc'[s] = "done" THEN [segs EXCEPT ![s] = n] ELSE segs
          /\ wfixes' = IF FixCalled(s, Outcome(s, mk, w, r, n, dw))
                       THEN [wfixes EXCEPT ![s] = @ + 1] ELSE wfixes
          /\ wnofix' = IF FixCalled(s, Outcome(s, mk, w, r, n, dw))
                          /\ fix = "none"
                       THEN [wnofix EXCEPT ![s] = wrenders[s] + 1] ELSE wnofix
          /\ debug_files' = [debug_files EXCEPT ![s] =
                         @ \cup DebugFiles(s, Outcome(s, mk, w, r, n, dw))]
          /\ werror' = IF wpc'[s] = "failed"
                       THEN [werror EXCEPT ![s] =
                                 Raised(Outcome(s, mk, w, r, n, dw))]
                       ELSE werror
    /\ finished' = IF wpc'[s] # "run" THEN Append(finished, s) ELSE finished
    /\ UNCHANGED <<variant, debug, loopVars, legacyVars, unitVars, jobVars, gpc, gtmp, gprogress, nscenes,
                   stepVars,
                   asmVars>>

\* the k-th Scene_*.mp4 under the worker directory of scene s
VideoPath(s, k) == <<s, k>>

\* line 156: the (video, scene_idx) pairs scene s returned, in file order
SceneResult(s) == [k \in 1..segs[s] |-> <<VideoPath(s, k), s>>]

\* asyncio.gather gives the results in the order of the futures, which is
\* the order of scene_data_list
GatherOrder == [i \in 1..nscenes |-> i - 1]

\* lines 205-209: rendered_videos.extend(result) for each result in turn
RECURSIVE Flatten(_)
Flatten(order) ==
    IF order = <<>> THEN <<>>
    ELSE SceneResult(Head(order)) \o Flatten(Tail(order))

\* line 212: rendered_videos.sort(key=lambda x: x[1]), a stable sort
RECURSIVE InsertByIndex(_, _)
InsertByIndex(x, sq) ==
    IF sq = <<>> THEN <<x>>
    ELSE IF x[2] <= Head(sq)[2] THEN <<x>> \o sq
    ELSE <<Head(sq)>> \o InsertByIndex(x, Tail(sq))

RECURSIVE SortByIndex(_)
SortByIndex(sq) ==
    IF sq = <<>> THEN <<>>
    ELSE InsertByIndex(Head(sq), SortByIndex(Tail(sq)))

CompletionOrderPaths(order) ==
    LET got == Flatten(finished)
    IN  [i \in DOMAIN got |-> got[i][1]]

\* lines 205-213: flatten, sort by scene index, keep the paths
OrderedVideoPaths(order) ==
    LET srt == SortByIndex(Flatten(order))
    IN  [i \in DOMAIN srt |-> srt[i][1]]

\* lines 200-203: the first result in the order of the futures that is an
\* exception
RECURSIVE FirstError(_)
FirstError(order) ==
    IF order = <<>> THEN <<>>
    ELSE IF werror[Head(order)] # "none"
    THEN <<Head(order), werror[Head(order)]>>
    ELSE FirstError(Tail(order))

\* The executor of line 186 gets a worker's exception as a pickle.  The
\* HTTPException of line 146 is built from keyword arguments only, so a
\* library whose HTTPException keeps no positional args cannot rebuild it:
\* the executor then counts the pool as broken, terminates the worker
\* processes and gives every future that has no result yet, the one of
\* scene s included, a BrokenProcessPool.
BrokenPool(s) ==
    /\ gpc = "rendering"
    /\ wpc[s] = "failed"
    /\ werror[s] = "HTTPException"
    /\ wpc' = [t \in SceneIds |-> IF wpc[t] = "run" THEN "failed" ELSE wpc[t]]
    /\ werror' = [t \in SceneIds |->
                     IF wpc[t] = "run" \/ t = s THEN "BrokenProcessPool"
                     ELSE werror[t]]
    /\ whist' = [t \in SceneIds |-> IF wpc[t] = "run" THEN "mixed" ELSE whist[t]]
    /\ finished' = finished \o
                      SelectSeq(GatherOrder, LAMBDA t : wpc[t] = "run")
    /\ UNCHANGED <<variant, debug, loopVars, legacyVars, unitVars, jobVars,
                   gpc, gtmp, gprogress, nscenes, stepVars, asmVars,
                   scene_attempt, current_code, wrenders, wfixes, wnofix,
                   debug_files, segs>>

MGatherEarly ==
    /\ gpc = "rendering"
    /\ \E s \in JobScenes : wpc[s] = "done"
    /\ rendered' = OrderedVideoPaths(GatherOrder)
    /\ gprogress' = 90
    /\ gpc' = "p90"
    /\ StepDone(TRUE, "render")
    /\ UNCHANGED <<variant, debug, loopVars, legacyVars, unitVars, jobVars, sceneVars, nscenes, assembled,
                   gmux, gerror, gtmp, gsteps>>

\* render_scenes_in_parallel after asyncio.gather: raise the first error in
\* scene order, else return the ordered paths; update_progress(90)
MGather ==
    /\ gpc = "rendering"
    /\ \A s \in JobScenes : wpc[s] \in {"done", "failed"}
    /\ IF \E s \in JobScenes : wpc[s] = "failed"
       THEN /\ RemoveTempDir
            /\ gpc' = "raised"
            /\ gerror' = FirstError(GatherOrder)
            /\ UNCHANGED <<gprogress, rendered>>
       ELSE /\ rendered' = OrderedVideoPaths(GatherOrder)
            /\ gprogress' = 90
            /\ gpc' = "p90"
            /\ UNCHANGED <<gtmp, gerror>>
    /\ StepDone(\A s \in JobScenes : wpc[s] = "done", "render")
    /\ UNCHANGED <<variant, debug, loopVars, legacyVars, unitVars, jobVars, sceneVars, nscenes, assembled,
                   gmux, gsteps>>

\* generation_utils.concatenate_scenes for n videos: concat.txt is written
\* (cw), then ffmpeg runs whatever n is (ff: it exits 0)
concatenate_scenes(n, cw, ff) ==
    IF ~cw THEN [mux |-> FALSE, out |-> "oserror"]
    ELSE [mux |-> TRUE, out |-> IF ff THEN "ok" ELSE "cpe"]

\* concatenate_scenes, save_final_video, update_progress(100)
MAssemble ==
    /\ gpc = "p90"
    /\ assembled' = TRUE
    /\ StepStarts(<<"assemble">>)
    /\ \E cw \in BOOLEAN, ff \in BOOLEAN, cp \in BOOLEAN, mv \in BOOLEAN :
          /\ StepDone(concatenate_scenes(Len(rendered), cw, ff).out = "ok",
                      "assemble")
          /\ gmux' = IF concatenate_scenes(Len(rendered), cw, ff).mux
                     THEN gmux + 1 ELSE gmux
          /\ IF concatenate_scenes(Len(rendered), cw, ff).out = "ok"
                /\ (debug => cp) /\ mv
             THEN /\ files' = files \cup {<<"videos", 0>>}
                  /\ gprogress' = 100
                  /\ gpc' = "p100"
                  /\ UNCHANGED gtmp
             ELSE /\ RemoveTempDir
                  /\ gpc' = "raised"
                  /\ UNCHANGED <<files, gprogress>>
    /\ UNCHANGED <<variant, debug, loopVars, legacyVars, unitVars, jobs, pc, attempt, manim_code, last_code,
                   last_error, audio, tmp, renders, prompt, hist, sceneVars, nscenes,
                   rendered, gerror>>

\* return video_filename through the finally clause
MReturn ==
    /\ gpc = "p100"
    /\ RemoveTempDir
    /\ gpc' = "returned"
    /\ UNCHANGED <<variant, debug, loopVars, legacyVars, unitVars, jobVars, gprogress, sceneVars, nscenes,
                   asmVars, stepVars>>

MultiNext ==
    \/ MPrepare \/ MSetup \/ MAudio \/ MGenerate \/ MGather \/ MAssemble \/ MReturn
    \/ \E s \in SceneIds : SceneAttempt(s)
    \/ \E s \in SceneIds : BrokenPool(s)

\* ------------------------------------------- videos/video_utils.py
LegacyInit ==
    /\ lpc = "start"
    /\ lattempt = 0
    /\ lgens = 0
    /\ lrenders = 0
    /\ lsegs = 0
    /\ lmux = FALSE
    /\ lasmfail = FALSE
    /\ ltmp = FALSE
    /\ lprogress = 0

\* an exception leaves generate_and_render_video through the with block
LRaise ==
    /\ lpc' = "raised"
    /\ ltmp' = FALSE

\* debug directory and plan file, TemporaryDirectory, update_progress(40)
LSetup ==
    /\ variant = "legacy"
    /\ lpc = "start"
    /\ \E dbg \in BOOLEAN :
          IF debug /\ ~dbg
          THEN /\ LRaise
               /\ UNCHANGED lprogress
          ELSE /\ ltmp' = TRUE
               /\ lprogress' = 40
               /\ lpc' = "p40"
    /\ UNCHANGED <<variant, debug, loopVars, jobVars, multiVars, unitVars, lattempt,
                   lgens, lrenders, lsegs, lmux, lasmfail>>

\* audio directory, generate_and_prepare_audio_files, copy of the audio file
\* into media/audio, update_progress(60)
LAudio ==
    /\ lpc = "p40"
    /\ \E mk \in BOOLEAN, res \in AudioOutcomes, cp \in BOOLEAN :
          IF mk /\ res = "file" /\ cp
          THEN /\ lprogress' = 60
               /\ lpc' = "loop"
               /\ UNCHANGED ltmp
          ELSE /\ LRaise
               /\ UNCHANGED lprogress
    /\ UNCHANGED <<variant, debug, loopVars, jobVars, multiVars, unitVars, lattempt,
                   lgens, lrenders, lsegs, lmux, lasmfail>>

\* line 220 of video_utils.py: if attempt == max_retries
LIsLastAttempt(a) == a = max_retries

\* except subprocess.CalledProcessError of video_utils.py; hw: the debug
\* fail-file can be written
LCPEHandler(hw) ==
    IF (debug /\ ~hw) \/ LIsLastAttempt(lattempt)
    THEN /\ LRaise
         /\ UNCHANGED lattempt
    ELSE /\ lattempt' = lattempt + 1
         /\ lpc' = "loop"
         /\ UNCHANGED ltmp

\* loop head, generate_system_design, update_progress(80)
LGenerate ==
    /\ lpc = "loop"
    /\ IF lattempt > max_retries
       THEN /\ LRaise
            /\ UNCHANGED <<lgens, lprogress>>
       ELSE /\ lgens' = lgens + 1
            /\ \E g \in {"code", "empty", "raise"} :
                  IF g = "code"
                  THEN /\ lprogress' = 80
                       /\ lpc' = "p80"
                       /\ UNCHANGED ltmp
                  ELSE /\ LRaise
                       /\ UNCHANGED lprogress
    /\ UNCHANGED <<variant, debug, loopVars, jobVars, multiVars, unitVars, lattempt,
                   lrenders, lsegs, lmux, lasmfail>>

\* scene.py is written, update_progress(90)
LWrite ==
    /\ lpc = "p80"
    /\ \E w \in BOOLEAN :
          IF w
          THEN /\ lprogress' = 90
               /\ lpc' = "p90"
               /\ UNCHANGED ltmp
          ELSE /\ LRaise
               /\ UNCHANGED lprogress
    /\ UNCHANGED <<variant, debug, loopVars, jobVars, multiVars, unitVars, lattempt,
                   lgens, lrenders, lsegs, lmux, lasmfail>>

\* subprocess.run of the renderer, check_returncode on a non-zero exit
LRender ==
    /\ lpc = "p90"
    /\ lrenders' = lrenders + 1
    /\ \E r \in {"ok", "crash"}, hw \in BOOLEAN :
          IF r = "ok"
          THEN /\ lpc' = "ran"
               /\ UNCHANGED <<lattempt, ltmp>>
          ELSE LCPEHandler(hw)
    /\ UNCHANGED <<variant, debug, loopVars, jobVars, multiVars, unitVars, lgens,
                   lsegs, lmux, lasmfail, lprogress>>

\* video_utils.concatenate_scenes for n videos: one video is moved to the
\* output name (mv), several are joined by ffmpeg (ff: it exits 0)
legacy_concatenate_scenes(n, ff, mv) ==
    IF n > 1
    THEN [mux |-> TRUE, out |-> IF ff THEN "ok" ELSE "cpe"]
    ELSE [mux |-> FALSE, out |-> IF mv THEN "ok" ELSE "oserror"]

\* glob for the rendered videos, concatenate_scenes, update_progress(100)
LAssemble ==
    /\ lpc = "ran"
    /\ \E n \in 0..MaxVideos, ff \in BOOLEAN, mv \in BOOLEAN, hw \in BOOLEAN :
          LET c == legacy_concatenate_scenes(n, ff, mv)
          IN  IF n = 0
              THEN /\ LRaise
                   /\ UNCHANGED <<lattempt, lsegs, lmux, lasmfail, lprogress>>
              ELSE /\ lsegs' = n
                   /\ lmux' = c.mux
                   /\ lasmfail' = (lasmfail \/ c.out = "cpe")
                   /\ CASE c.out = "ok" ->
                             /\ lprogress' = 100
                             /\ lpc' = "p100"
                             /\ UNCHANGED <<lattempt, ltmp>>
                        [] c.out = "cpe" ->
                             /\ LCPEHandler(hw)
                             /\ UNCHANGED lprogress
                        [] OTHER ->
                             /\ LRaise
                             /\ UNCHANGED <<lattempt, lprogress>>
    /\ UNCHANGED <<variant, debug, loopVars, jobVars, multiVars, unitVars, lgens,
                   lrenders>>

\* the video is stored (debug: two copies and the success file; else a
\* move), return video_filename
LSave ==
    /\ lpc = "p100"
    /\ \E cp1 \in BOOLEAN, cp2 \in BOOLEAN, sw \in BOOLEAN, mv \in BOOLEAN :
          LET stored == IF debug THEN cp1 /\ cp2 ELSE mv
              ok     == IF debug THEN cp1 /\ cp2 /\ sw ELSE mv
          IN  /\ files' = IF stored THEN files \cup {<<"videos", -1>>} ELSE files
              /\ lpc' = IF ok THEN "returned" ELSE "raised"
    /\ ltmp' = FALSE
    /\ UNCHANGED <<variant, debug, loopVars, multiVars, unitVars, jobs, pc, attempt,
                   manim_code, last_code, last_error, audio, tmp, renders, prompt,
                   hist, lattempt, lgens, lrenders, lsegs, lmux, lasmfail,
                   lprogress>>

LegacyNext ==
    \/ LSetup \/ LAudio \/ LGenerate \/ LWrite \/ LRender \/ LAssemble
    \/ LSave

\* ------------------------------------- functions exercised on their own
\* durations are counted in half seconds
Durations == {8, 13, 20}

\* lines 284 and 291 of video_utils.py: 4 and 6.5 seconds
FirstSilence == 8
OtherSilence == 13

ConcatOff == segments = <<>> /\ track = <<>>
SpeechOff ==
    /\ speech_attempt = 0
    /\ scalls = 0
    /\ sresult = "none"
    /\ sallfail = TRUE
    /\ sioat = 0
AudioOff == nscripts = 0 /\ aidx = 1 /\ audio_files = <<>> /\ afailed = FALSE
NoDesign == [kind |-> "none", components |-> <<>>, relationships |-> <<>>]
PlanOff == design = NoDesign /\ content = NoDesign
NoHeader == [given |-> FALSE, unit |-> FALSE, fields |-> <<>>]
StreamOff ==
    /\ vexists = FALSE
    /\ vfile = <<>>
    /\ range_header = NoHeader
    /\ responses = <<>>
    /\ chunks = <<>>
DeleteOff ==
    /\ filenames = <<>>
    /\ disk = {}
    /\ disk0 = {}
    /\ dtouched = {}
    /\ results = <<>>
NoFiles == [p \in {} |-> 0]
WorkersOff ==
    /\ spc = [s \in SceneIds |-> "off"]
    /\ sattempt = [s \in SceneIds |-> 0]
    /\ sdirs = {}
    /\ scratch = NoFiles
    /\ sreads = [s \in SceneIds |-> {}]
    /\ sgot = [s \in SceneIds |-> {}]
UnitsOff ==
    /\ upc = "off"
    /\ WorkersOff
    /\ ConcatOff /\ SpeechOff /\ AudioOff /\ PlanOff /\ StreamOff /\ DeleteOff

\* rendered_videos as concatenate_scenes sees them: each video's duration
\* and whether ffprobe reports an audio stream in it
SegmentInputs ==
    UNION {[1..n -> [dur : Durations, voiced : BOOLEAN]] : n \in 1..MaxSegs}

\* lines 254-271: the index of the first video with an audio stream
NoAudio == -1
audio_index(sg) ==
    IF \E i \in DOMAIN sg : sg[i].voiced
    THEN (CHOOSE i \in DOMAIN sg :
             sg[i].voiced /\ \A k \in 1..(i - 1) : ~sg[k].voiced) - 1
    ELSE NoAudio

\* line 284: the duration of the silence put before the audio
silence1(ai) == (IF ai = 0 THEN FirstSilence ELSE OtherSilence) * ai

\* line 291: sum(6.5 if i > 0 else 4.0 for i in range(lo, n))
RECURSIVE remaining_duration(_, _)
remaining_duration(lo, n) ==
    IF lo >= n THEN 0
    ELSE (IF lo > 0 THEN OtherSilence ELSE FirstSilence)
            + remaining_duration(lo + 1, n)

Part(d, s) == [dur |-> d, src |-> s]
Silence == -1
PastEnd == -2

\* lines 277-302: the parts of the audio track, in order: silence, the
\* audio of video audio_index (taken to last as long as its video), silence
AudioParts(sg) ==
    LET ai == audio_index(sg)
        n  == Len(sg)
    IN  IF ai = NoAudio THEN <<>>
        ELSE (IF ai > 0 THEN <<Part(silence1(ai), Silence)>> ELSE <<>>)
             \o <<Part(sg[ai + 1].dur, ai)>>
             \o (IF ai < n - 1
                 THEN <<Part(remaining_duration(ai + 1, n), Silence)>>
                 ELSE <<>>)

\* the video track: the videos one after another
VideoParts(sg) == [i \in DOMAIN sg |-> Part(sg[i].dur, i - 1)]

\* what a track made of parts plays at time t
RECURSIVE SourceAt(_, _)
SourceAt(parts, t) ==
    IF parts = <<>> THEN PastEnd
    ELSE IF t < Head(parts).dur THEN Head(parts).src
    ELSE SourceAt(Tail(parts), t - Head(parts).dur)

RECURSIVE TotalDuration(_)
TotalDuration(parts) ==
    IF parts = <<>> THEN 0
    ELSE Head(parts).dur + TotalDuration(Tail(parts))

\* video_utils.concatenate_scenes applied to segments
RunConcatenate ==
    /\ upc = "concat"
    /\ track' = IF Len(segments) > 1 THEN AudioParts(segments) ELSE <<>>
    /\ upc' = "concat_done"
    /\ UNCHANGED <<variant, debug, loopVars, jobVars, multiVars, legacyVars, workerVars, segments,
                   speechVars, audioVars, planVars, streamVars, deleteVars>>

\* generate_speech: the check of client
SpeechStart ==
    /\ upc = "speech"
    /\ \E client \in BOOLEAN :
          IF client
          THEN /\ upc' = "speech_loop"
               /\ UNCHANGED sresult
          ELSE /\ upc' = "speech_done"
               /\ sresult' = "raised"
    /\ UNCHANGED <<variant, debug, loopVars, jobVars, multiVars, legacyVars, workerVars, concatVars,
                   speech_attempt, scalls, sallfail, sioat,
                   audioVars, planVars, streamVars, deleteVars>>

\* generate_speech with the write to disk inside the retried block
speech_retried_all(o) == o # "ok"
\* generate_speech: the failures handled by except Exception (retried); an
\* IOError of the write is handled by the inner handler, which returns
speech_retried(o) == o = "api_error"

\* generate_speech: one iteration of for attempt in range(MAX_RETRIES)
SpeechCall ==
    /\ upc = "speech_loop"
    /\ IF speech_attempt >= MAX_RETRIES
       THEN /\ sresult' = "false"
            /\ upc' = "speech_done"
            /\ UNCHANGED <<speech_attempt, scalls, sallfail, sioat>>
       ELSE /\ scalls' = scalls + 1
            /\ \E o \in {"ok", "io_error", "api_error"} :
                /\ sioat' = IF o = "io_error" THEN scalls + 1 ELSE sioat
                /\ CASE o = "ok" ->
                         /\ sresult' = "true"
                         /\ upc' = "speech_done"
                         /\ sallfail' = FALSE
                         /\ UNCHANGED speech_attempt
                    [] o # "ok" /\ ~speech_retried(o) ->
                         /\ sresult' = "false"
                         /\ upc' = "speech_done"
                         /\ sallfail' = FALSE
                         /\ UNCHANGED speech_attempt
                    [] OTHER ->
                         /\ UNCHANGED sallfail
                         /\ IF speech_attempt = MAX_RETRIES - 1
                            THEN /\ sresult' = "false"
                                 /\ upc' = "speech_done"
                                 /\ UNCHANGED speech_attempt
                            ELSE /\ speech_attempt' = speech_attempt + 1
                                 /\ UNCHANGED <<sresult, upc>>
    /\ UNCHANGED <<variant, debug, loopVars, jobVars, multiVars, legacyVars, workerVars, concatVars,
                   audioVars, planVars, streamVars, deleteVars>>

\* everything outside the stand-alone units
pipelineVars == <<variant, debug, loopVars, jobVars, multiVars, legacyVars>>

\* sequences over S of length lo..hi
SeqsOf(S, lo, hi) == UNION {[1..k -> S] : k \in lo..hi}

(* ---------------- audio_utils.generate_audio ---------------- *)

MaxScripts == 3
\* get_audio_duration: the length mutagen reports, or the default 5.0
AudioDurations == {5, 8, 13}

\* generate_audio accepting a False of generate_speech and going on
audio_step_skip(o) ==
    IF o = "true" THEN "append" ELSE IF o = "raised" THEN "raise" ELSE "skip"
\* generate_audio: what one result of generate_speech leads to
\* (if success: append, else: raise; an exception is re-raised)
audio_step(o) == IF o = "true" THEN "append" ELSE "raise"

\* generate_audio: one iteration of the loop over script_contents
AudioScene ==
    /\ upc = "audio_loop"
    /\ aidx <= nscripts
    /\ \E o \in {"true", "false", "raised"}, d \in AudioDurations :
          /\ afailed' = (afailed \/ o # "true")
          /\ CASE audio_step(o) = "append" ->
                    /\ audio_files' = Append(audio_files,
                                             [path |-> aidx, duration |-> d])
                    /\ aidx' = aidx + 1
                    /\ UNCHANGED upc
               [] audio_step(o) = "raise" ->
                    /\ upc' = "audio_raised"
                    /\ UNCHANGED <<audio_files, aidx>>
               [] OTHER ->
                    /\ aidx' = aidx + 1
                    /\ UNCHANGED <<audio_files, upc>>
    /\ UNCHANGED <<pipelineVars, workerVars, concatVars, speechVars, planVars, streamVars,
                   deleteVars, nscripts>>

\* generate_audio: return audio_files
AudioReturn ==
    /\ upc = "audio_loop"
    /\ aidx > nscripts
    /\ upc' = "audio_returned"
    /\ UNCHANGED <<pipelineVars, workerVars, concatVars, speechVars, audioVars, planVars,
                   streamVars, deleteVars>>

(* ---------------- ai_utils.generate_concepts ---------------- *)

ComponentIds == {"a", "b"}
MaxComponents == 2
MaxRelationships == 1
\* Relationship.direction: Literal["forward", "bidirectional"]
Directions == {"forward", "bidirectional"}

\* what the completion call can hand back: an error, a refusal (parsed is
\* None) or structured data
DesignOutputs ==
    {[kind |-> k, components |-> <<>>, relationships |-> <<>>] :
        k \in {"api_error", "refusal"}}
    \cup
    {[kind |-> "design", components |-> c, relationships |-> r] :
        c \in SeqsOf(ComponentIds, 0, MaxComponents),
        r \in SeqsOf([source : ComponentIds, target : ComponentIds,
                      direction : Directions \cup {"sideways"}],
                     0, MaxRelationships)}

\* validation of the output against the SystemDesign model: the fields of
\* Component, Relationship and SystemDesign
SchemaValid(d) ==
    \A i \in DOMAIN d.relationships :
        d.relationships[i].direction \in Directions

\* generate_concepts: the check of client
ConceptsStart ==
    /\ upc = "plan"
    /\ \E client \in BOOLEAN :
          upc' = IF client THEN "plan_call" ELSE "plan_raised"
    /\ UNCHANGED <<pipelineVars, workerVars, concatVars, speechVars, audioVars, planVars,
                   streamVars, deleteVars>>

\* generate_concepts: completions.parse, message.parsed, model_dump_json
ConceptsCall ==
    /\ upc = "plan_call"
    /\ IF design.kind = "design" /\ SchemaValid(design)
       THEN /\ content' = design
            /\ upc' = "plan_returned"
       ELSE /\ upc' = "plan_raised"
            /\ UNCHANGED content
    /\ UNCHANGED <<pipelineVars, workerVars, concatVars, speechVars, audioVars, streamVars,
                   deleteVars, design>>

(* ---------------- streaming_utils ---------------- *)

MaxSize == 3
MaxFields == 3
\* a field of the header after split("-"): the empty string, a string
\* int() rejects, or a number
EmptyField == -1
NonNumeric == -2
Fields == {EmptyField, NonNumeric} \cup 0..MaxSize

\* the Range headers: with or without the "bytes=" unit, split at "-"
RangeHeaders ==
    {[given |-> TRUE, unit |-> u, fields |-> f] :
        u \in BOOLEAN, f \in SeqsOf(Fields, 1, MaxFields)}

NoRange == <<>>
Answer(code, len, range) ==
    [status_code |-> code, content_length |-> len, content_range |-> range]

\* get_video_file_response
get_video_file_response(exists, file_size, h) ==
    IF ~exists THEN Answer(404, 0, NoRange)
    ELSE IF ~h.given THEN Answer(200, file_size, NoRange)
    ELSE LET ranges == h.fields
             bad == \/ ranges[1] = NonNumeric
                    \/ Len(ranges) > 1 /\ ranges[2] = NonNumeric
             start == IF ranges[1] # EmptyField THEN ranges[1] ELSE 0
             end == IF Len(ranges) > 1 /\ ranges[2] # EmptyField
                    THEN ranges[2] ELSE file_size - 1
         IN IF bad THEN Answer(416, 0, NoRange)
            ELSE IF start >= file_size \/ start < 0 \/ end >= file_size
                    \/ start > end
            THEN Answer(416, 0, NoRange)
            ELSE Answer(206, end - start + 1, <<start, end, file_size>>)

NoChunkSize == -1
\* read_video_chunk seeking one byte too far
read_video_chunk_skip(file, start, chunk_size) ==
    IF chunk_size = NoChunkSize THEN file
    ELSE SubSeq(file, start + 2,
                IF start + 1 + chunk_size < Len(file)
                THEN start + 1 + chunk_size ELSE Len(file))
\* read_video_chunk: read_bytes(), or seek(start) and read(chunk_size)
read_video_chunk(file, start, chunk_size) ==
    IF chunk_size = NoChunkSize THEN file
    ELSE SubSeq(file, start + 1,
                IF start + chunk_size < Len(file)
                THEN start + chunk_size ELSE Len(file))

MaxRequests == 2

\* a request for the video: get_video_file_response
StreamRespond ==
    /\ upc = "stream"
    /\ Len(responses) < MaxRequests
    /\ LET r == get_video_file_response(vexists, Len(vfile), range_header)
       IN /\ responses' = Append(responses, r)
          /\ upc' = IF r.status_code \in {200, 206} THEN "stream_read"
                    ELSE "stream"
    /\ UNCHANGED <<pipelineVars, workerVars, concatVars, speechVars, audioVars, planVars,
                   deleteVars, vexists, vfile, range_header, chunks>>

\* the body of the answer: read_video_chunk; the read may fail
StreamRead ==
    /\ upc = "stream_read"
    /\ LET r == responses[Len(responses)]
           data == IF r.status_code = 206
                   THEN read_video_chunk(vfile, r.content_range[1],
                                         r.content_length)
                   ELSE read_video_chunk(vfile, 0, NoChunkSize)
       IN \E ok \in BOOLEAN :
             chunks' = Append(chunks,
                              [ok |-> ok, of |-> Len(responses),
                               bytes |-> IF ok THEN data ELSE <<>>])
    /\ upc' = "stream"
    /\ UNCHANGED <<pipelineVars, workerVars, concatVars, speechVars, audioVars, planVars,
                   deleteVars, vexists, vfile, range_header, responses>>

(* ---------------- main.delete_videos ---------------- *)

MaxName == 2
MaxList == 2
Separators == {"/", "\\"}
Chars == {"a", "."} \cup Separators
Names == SeqsOf(Chars, 0, MaxName)

\* VIDEOS_DIR, as a path from the root: the working directory, then videos
WorkDir == << <<"w">> >>
VIDEOS_DIR == WorkDir \o << <<"v">> >>
\* the files that may exist: two videos, a file in the root directory and
\* one next to the videos directory
InsideFiles == {VIDEOS_DIR \o << <<"a">> >>, VIDEOS_DIR \o << <<"a", "a">> >>}
OutsideFiles == {<< <<"a">> >>, WorkDir \o << <<"a">> >>}

\* one path component applied to a directory
Enter(dir, comp) ==
    IF comp = <<>> \/ comp = <<".">> THEN dir
    ELSE IF comp = <<".", ".">>
         THEN IF dir = <<>> THEN dir ELSE SubSeq(dir, 1, Len(dir) - 1)
         ELSE Append(dir, comp)

RECURSIVE Walk(_, _, _, _)
Walk(dir, comp, name, i) ==
    IF i > Len(name) THEN Enter(dir, comp)
    ELSE IF name[i] = "/" THEN Walk(Enter(dir, comp), <<>>, name, i + 1)
    ELSE Walk(dir, Append(comp, name[i]), name, i + 1)

\* the file VIDEOS_DIR / filename names (an absolute filename replaces
\* VIDEOS_DIR)
PathOf(name) ==
    Walk(IF name # <<>> /\ name[1] = "/" THEN <<>> ELSE VIDEOS_DIR,
         <<>>, name, 1)

IsDirectory(d, path) ==
    \/ path = <<>>
    \/ path = WorkDir
    \/ path = VIDEOS_DIR
    \/ \E f \in d : Len(f) > Len(path) /\ SubSeq(f, 1, Len(path)) = path

Result(name, st, msg) == [filename |-> name, status |-> st, message |-> msg]

\* delete_videos without the check of the filename
has_separator_never(name) == FALSE
\* delete_videos: "/" in filename or "\\" in filename
has_separator(name) == \E i \in DOMAIN name : name[i] \in Separators

\* delete_videos: one iteration of the loop over filenames
DeleteOne ==
    /\ upc = "delete"
    /\ Len(results) < Len(filenames)
    /\ LET i == Len(results) + 1
           name == filenames[i]
           path == PathOf(name)
       IN IF has_separator(name)
          THEN /\ results' = Append(results,
                                    Result(name, "error", "Invalid filename"))
               /\ UNCHANGED <<disk, dtouched>>
          ELSE /\ dtouched' = dtouched \cup {i}
               /\ IF path \notin disk /\ ~IsDirectory(disk, path)
                  THEN /\ results' = Append(results,
                                     Result(name, "error", "File not found"))
                       /\ UNCHANGED disk
                  ELSE \E ok \in BOOLEAN :
                         IF ok /\ path \in disk
                         THEN /\ disk' = disk \ {path}
                              /\ results' = Append(results,
                                       Result(name, "success", "Deleted"))
                         ELSE /\ results' = Append(results,
                                       Result(name, "error", "oserror"))
                              /\ UNCHANGED disk
    /\ UNCHANGED <<pipelineVars, workerVars, concatVars, speechVars, audioVars, planVars,
                   streamVars, filenames, disk0, upc>>

\* delete_videos: return {"results": results}
DeleteReturn ==
    /\ upc = "delete"
    /\ Len(results) = Len(filenames)
    /\ upc' = "delete_returned"
    /\ UNCHANGED <<pipelineVars, workerVars, concatVars, speechVars, audioVars, planVars,
                   streamVars, deleteVars>>

\* ----------------------- render_single_scene on the temporary directory
\* A path under temp_dir: worker names the directory worker_{worker}, scene
\* the stem scene_{scene}; file 0 is the source scene_{scene}.py and file
\* k > 0 the k-th Scene_*.mp4 under media/videos/scene_{scene}/720p30.
ScratchPath(wd, stem, k) == [worker |-> wd, scene |-> stem, file |-> k]

\* every scene in temp_dir / "worker_1"
worker_dir_shared(s) == 1
\* line 89: temp_dir_path / f"worker_{scene_idx + 1}"
worker_dir(s) == s + 1
\* line 99: worker_dir / f"scene_{scene_idx + 1}.py"
scene_file(s) == ScratchPath(worker_dir(s), s + 1, 0)
\* lines 139-140: the Scene_*.mp4 under
\* worker_dir / "media" / "videos" / f"scene_{scene_idx + 1}" / "720p30"
scene_videos(s) ==
    {p \in DOMAIN scratch :
        p.worker = worker_dir(s) /\ p.scene = s + 1 /\ p.file > 0}
\* the renderer started on source file src in directory cwd writes its n
\* videos under cwd / media / videos / stem of src / 720p30
render_output(cwd, src, n) == {ScratchPath(cwd, src.scene, k) : k \in 1..n}

\* the files of scratch with those of paths holding c
WriteFiles(paths, c) ==
    [p \in DOMAIN scratch \cup paths |-> IF p \in paths THEN c ELSE scratch[p]]

\* lines 134-135, 143-148, 158-163: the next pass of the loop, or the end
\* of the worker after the last one
WRetry(s) ==
    IF sattempt[s] = max_retries
    THEN /\ spc' = [spc EXCEPT ![s] = "failed"]
         /\ UNCHANGED sattempt
    ELSE /\ spc' = [spc EXCEPT ![s] = "write"]
         /\ sattempt' = [sattempt EXCEPT ![s] = @ + 1]

\* lines 89-90: worker_dir.mkdir(exist_ok=True)
WMkdir(s) ==
    /\ upc = "workers"
    /\ spc[s] = "mkdir"
    /\ \E mk \in BOOLEAN :
          IF mk
          THEN /\ sdirs' = sdirs \cup {worker_dir(s)}
               /\ spc' = [spc EXCEPT ![s] = "write"]
          ELSE /\ spc' = [spc EXCEPT ![s] = "failed"]
               /\ UNCHANGED sdirs
    /\ UNCHANGED <<pipelineVars, concatVars, speechVars, audioVars, planVars,
                   streamVars, deleteVars, upc, sattempt, scratch, sreads,
                   sgot>>

\* lines 99-102: current_code is written to scene_file
WWrite(s) ==
    /\ upc = "workers"
    /\ spc[s] = "write"
    /\ \E w \in BOOLEAN :
          IF w /\ scene_file(s).worker \in sdirs
          THEN /\ scratch' = WriteFiles({scene_file(s)},
                                 [scene |-> s, attempt |-> sattempt[s]])
               /\ spc' = [spc EXCEPT ![s] = "render"]
               /\ UNCHANGED sattempt
          ELSE /\ WRetry(s)
               /\ UNCHANGED scratch
    /\ UNCHANGED <<pipelineVars, concatVars, speechVars, audioVars, planVars,
                   streamVars, deleteVars, upc, sdirs, sreads, sgot>>

\* lines 105-124: the renderer runs on scene_file with cwd=worker_dir; it
\* reads the file and, when it exits 0, has written n videos
WRender(s) ==
    /\ upc = "workers"
    /\ spc[s] = "render"
    /\ sreads' = [sreads EXCEPT ![s] = @ \cup {scratch[scene_file(s)]}]
    /\ \E r \in {"ok", "crash"}, n \in 0..MaxVideos :
          IF r = "ok"
          THEN /\ scratch' = WriteFiles(
                       render_output(worker_dir(s), scene_file(s), n),
                       scratch[scene_file(s)])
               /\ spc' = [spc EXCEPT ![s] = "collect"]
               /\ UNCHANGED sattempt
          ELSE /\ WRetry(s)
               /\ UNCHANGED scratch
    /\ UNCHANGED <<pipelineVars, concatVars, speechVars, audioVars, planVars,
                   streamVars, deleteVars, upc, sdirs, sgot>>

\* lines 138-156: the videos under scene_dir are collected and returned
WCollect(s) ==
    /\ upc = "workers"
    /\ spc[s] = "collect"
    /\ IF scene_videos(s) = {}
       THEN /\ WRetry(s)
            /\ UNCHANGED sgot
       ELSE /\ sgot' = [sgot EXCEPT ![s] = {scratch[p] : p \in scene_videos(s)}]
            /\ spc' = [spc EXCEPT ![s] = "done"]
            /\ UNCHANGED sattempt
    /\ UNCHANGED <<pipelineVars, concatVars, speechVars, audioVars, planVars,
                   streamVars, deleteVars, upc, sdirs, scratch, sreads>>

InitUnits ==
    /\ variant = "units"
    /\ debug = FALSE
    /\ JobInit
    /\ MultiInit
    /\ LegacyInit
    /\ track = <<>>
    /\ SpeechOff /\ AudioOff /\ PlanOff /\ StreamOff /\ DeleteOff
    /\ WorkersOff
    /\ \/ upc = "concat" /\ segments \in SegmentInputs
       \/ upc = "speech" /\ segments = <<>>

NextUnits == RunConcatenate \/ SpeechStart \/ SpeechCall

SpecUnits == InitUnits /\ [][NextUnits]_vars

PipelinesOff ==
    /\ variant = "units"
    /\ debug = FALSE
    /\ JobInit
    /\ MultiInit
    /\ LegacyInit

InitAudio ==
    /\ PipelinesOff
    /\ ConcatOff /\ SpeechOff /\ PlanOff /\ StreamOff /\ DeleteOff
    /\ WorkersOff
    /\ upc = "audio_loop"
    /\ nscripts \in 0..MaxScripts
    /\ aidx = 1
    /\ audio_files = <<>>
    /\ afailed = FALSE
NextAudio == AudioScene \/ AudioReturn
SpecAudio == InitAudio /\ [][NextAudio]_vars

InitPlan ==
    /\ PipelinesOff
    /\ ConcatOff /\ SpeechOff /\ AudioOff /\ StreamOff /\ DeleteOff
    /\ WorkersOff
    /\ upc = "plan"
    /\ design \in DesignOutputs
    /\ content = NoDesign
NextPlan == ConceptsStart \/ ConceptsCall
SpecPlan == InitPlan /\ [][NextPlan]_vars

InitStream ==
    /\ PipelinesOff
    /\ ConcatOff /\ SpeechOff /\ AudioOff /\ PlanOff /\ DeleteOff
    /\ WorkersOff
    /\ upc = "stream"
    /\ vexists \in BOOLEAN
    /\ vfile \in IF vexists THEN SeqsOf({0, 1}, 0, MaxSize) ELSE {<<>>}
    /\ range_header \in RangeHeaders \cup {NoHeader}
    /\ responses = <<>>
    /\ chunks = <<>>
NextStream == StreamRespond \/ StreamRead
SpecStream == InitStream /\ [][NextStream]_vars

InitDelete ==
    /\ PipelinesOff
    /\ ConcatOff /\ SpeechOff /\ AudioOff /\ PlanOff /\ StreamOff
    /\ WorkersOff
    /\ upc = "delete"
    /\ filenames \in SeqsOf(Names, 0, MaxList)
    /\ disk \in {OutsideFiles \cup d : d \in SUBSET InsideFiles}
    /\ disk0 = disk
    /\ dtouched = {}
    /\ results = <<>>
NextDelete == DeleteOne \/ DeleteReturn
SpecDelete == InitDelete /\ [][NextDelete]_vars

\* render_scenes_in_parallel has handed the scenes of one video to the pool
InitWorkers ==
    /\ PipelinesOff
    /\ ConcatOff /\ SpeechOff /\ AudioOff /\ PlanOff /\ StreamOff /\ DeleteOff
    /\ upc = "workers"
    /\ \E n \in 1..NumScenes :
          spc = [s \in SceneIds |-> IF s < n THEN "mkdir" ELSE "off"]
    /\ sattempt = [s \in SceneIds |-> 0]
    /\ sdirs = {}
    /\ scratch = NoFiles
    /\ sreads = [s \in SceneIds |-> {}]
    /\ sgot = [s \in SceneIds |-> {}]
NextWorkers ==
    \E s \in SceneIds : WMkdir(s) \/ WWrite(s) \/ WRender(s) \/ WCollect(s)
SpecWorkers == InitWorkers /\ [][NextWorkers]_vars

TaskStep(j) ==
    \/ StartTask(j) \/ Setup(j) \/ Generate(j) \/ Prepare(j)
    \/ RenderStart(j) \/ RenderExit(j)
    \/ Locate(j) \/ Place(j) \/ Finish(j) \/ OuterHandler(j)

\* one request: the first job id
FirstJob == {1}

JobNext ==
    \/ \E j \in FirstJob : GenerateVideo(j) \/ AudioReady(j) \/ TaskStep(j)
    \/ \E q \in JobIds : GetJobStatus(q)

\* NumJobs requests, their handlers and background tasks interleaved at
\* the awaits
JobsNext == \E j \in JobIds : GenerateVideo(j) \/ AudioReady(j) \/ TaskStep(j)

Init ==
    /\ variant \in {"main", "multi", "legacy"}
    /\ debug \in BOOLEAN
    /\ JobInit
    /\ MultiInit
    /\ LegacyInit
    /\ UnitsOff

Next == JobNext \/ MultiNext \/ LegacyNext

Spec == Init /\ [][Next]_vars

InitJobs ==
    /\ variant = "main"
    /\ debug \in BOOLEAN
    /\ JobInit
    /\ MultiInit
    /\ LegacyInit
    /\ UnitsOff

SpecJobs == InitJobs /\ [][JobsNext]_vars

\* The event loop runs every task that is ready, and every external call
\* returns: each started background task keeps taking steps.
FairSpec == Spec /\ \A j \in JobIds : WF_vars(TaskStep(j))

\* The two retry loops side by side: process_video_job for one job and
\* render_single_scene called for one scene.
InitRetry ==
    /\ variant = "both"
    /\ debug \in BOOLEAN
    /\ JobInit
    /\ gpc = "start"
    /\ gtmp = FALSE
    /\ gprogress = 0
    /\ wpc = [s \in SceneIds |-> IF s = 0 THEN "run" ELSE "idle"]
    /\ scene_attempt = [s \in SceneIds |-> 0]
    /\ current_code = [s \in SceneIds |-> Code("scene", 0)]
    /\ wrenders = [s \in SceneIds |-> 0]
    /\ whist = [s \in SceneIds |-> "crashes"]
    /\ wfixes = [s \in SceneIds |-> 0]
    /\ wnofix = [s \in SceneIds |-> 0]
    /\ debug_files = [s \in SceneIds |-> {}]
    /\ werror = [s \in SceneIds |-> "none"]
    /\ gerror = <<>>
    /\ nscenes = 1
    /\ segs = [s \in SceneIds |-> 0]
    /\ finished = <<>>
    /\ rendered = <<>>
    /\ assembled = FALSE
    /\ gmux = 0
    /\ gsteps = <<>>
    /\ gdone = {}
    /\ LegacyInit
    /\ UnitsOff

NextRetry ==
    \/ GenerateVideo(1) \/ AudioReady(1) \/ TaskStep(1)
    \/ SceneAttempt(0)

SpecRetry == InitRetry /\ [][NextRetry]_vars

\* ------------------------------------------------------------ claims
Ended(j) == pc[j] \in {"returned", "raised"}

\* C1: a run of process_video_job whose first attempt got code with a Scene
\* class, a renderer exit of 0 and the rendered file ends COMPLETED with
\* progress 100 and a videoUrl naming a file in the public videos directory,
\* with debug mode on or off.
C1_FirstAttemptSuccessCompletes ==
    \A j \in DOMAIN jobs :
        (Ended(j) /\ hist[j] = "found0") =>
            /\ jobs[j].status = COMPLETED
            /\ jobs[j].progress = 100
            /\ jobs[j].videoUrl # None
            /\ <<"videos", jobs[j].videoUrl>> \in files

\* C2: every job that failed at any step, in the request handler or in the
\* background task, has status FAILED and progress 0.
C2_FailedJobIsFailed ==
    \A j \in DOMAIN jobs :
        (pc[j] \in {"rejected", "raised"}) =>
            jobs[j].status = FAILED /\ jobs[j].progress = 0

\* C3: a job or scene whose every attempt ended in a renderer crash fails
\* after exactly max_retries + 1 renderer invocations, and no job or scene
\* ever gets more than max_retries + 1 invocations.
C3_ExactRetryBound ==
    /\ \A j \in JobIds :
          /\ renders[j] <= max_retries + 1
          /\ (hist[j] = "crashes" /\ pc[j] \in {"outer", "raised"}) =>
                renders[j] = max_retries + 1
    /\ \A s \in SceneIds :
          /\ wrenders[s] <= max_retries + 1
          /\ (whist[s] = "crashes" /\ wpc[s] = "failed") =>
                wrenders[s] = max_retries + 1

C3_Witness ==
    /\ pc[1] = "raised" /\ hist[1] = "crashes" /\ renders[1] = max_retries + 1
    /\ wpc[0] = "failed" /\ whist[0] = "crashes"
    /\ wrenders[0] = max_retries + 1

\* C4: while a job stays IN_PROGRESS its progress never decreases from one
\* update to the next, retries included.
C4_ProgressMonotone ==
    [][\A j \in DOMAIN jobs :
         (jobs[j].status = IN_PROGRESS /\ jobs'[j].status = IN_PROGRESS) =>
             jobs'[j].progress >= jobs[j].progress]_vars

C6_PublicFileOnlyWhenCompleted ==
    \A j \in JobIds :
        PublicPath(j) \in files =>
            j \in DOMAIN jobs /\ jobs[j].status = COMPLETED

C8_NoTempDirAfterExit ==
    /\ \A j \in JobIds : Ended(j) => ~tmp[j]
    /\ gpc \in {"returned", "raised"} => ~gtmp

\* C9: process_video_job never ends by raising to its caller.
C9_NoExceptionEscapes == \A j \in JobIds : pc[j] # "raised"

\* C10: every job whose background task has started eventually is
\* COMPLETED or FAILED.
C10_StartedJobTerminates ==
    \A j \in JobIds :
        (pc[j] = "p20") ~>
            (j \in DOMAIN jobs /\ jobs[j].status \in {COMPLETED, FAILED})

C10_Witness ==
    \E j \in DOMAIN jobs :
        /\ pc[j] = "raised" /\ jobs[j].status = FAILED
        /\ attempt[j] = max_retries /\ renders[j] = max_retries + 1

\* the multi-scene pipeline has been given the list of rendered videos
Handed == gpc \in {"p90", "p100", "returned"} \/ assembled

\* C11: the list of video paths that render_scenes_in_parallel hands to
\* assembly holds every video of every scene and is ordered by scene index,
\* whatever the order in which the scene workers ended.
C11_RenderedOrderedByScene ==
    Handed =>
        /\ \A i \in DOMAIN rendered : \A k \in DOMAIN rendered :
              i < k => rendered[i][1] <= rendered[k][1]
        /\ \A s \in JobScenes : \A k \in 1..segs[s] :
              \E i \in DOMAIN rendered : rendered[i] = VideoPath(s, k)

C11_Witness ==
    /\ gpc = "p90"
    /\ finished = <<1, 0>>
    /\ Len(rendered) >= 2
    /\ rendered[1][1] = 0

\* C12: concatenate_scenes is called only when every scene worker has ended
\* and every scene succeeded; when a scene has exhausted its retries the
\* pipeline fails and assembly is never started.
C12_AssemblyOnlyAfterAllScenes ==
    /\ assembled => \A s \in JobScenes : wpc[s] = "done"
    /\ ((\E s \in JobScenes : wpc[s] = "failed") /\ gpc # "rendering") =>
          gpc = "raised" /\ ~assembled

C12_Witness ==
    /\ gpc = "raised"
    /\ wpc[0] = "done"
    /\ wpc[1] = "failed" /\ scene_attempt[1] = max_retries
    /\ ~assembled

\* C13: a renderer exit of 0 with no output file found is a failed attempt:
\* no scene is reported as rendered, and no job as COMPLETED, without a
\* located output file.
C13_NoSuccessWithoutFile ==
    /\ \A s \in SceneIds : wpc[s] = "done" => segs[s] >= 1
    /\ \A j \in DOMAIN jobs :
          jobs[j].status = COMPLETED => OutputPath(j) \in files
    /\ lpc \in {"p100", "returned"} => lsegs >= 1

\* with debug off, three renderer runs without a new code version and
\* something other than crashes met: an attempt exited 0 with no file
C13_Witness ==
    \E s \in SceneIds :
        /\ ~debug
        /\ wpc[s] = "failed" /\ whist[s] = "mixed"
        /\ wrenders[s] = max_retries + 1

\* C14: every scene that rendered contributes exactly one segment, so the
\* number of segments handed to assembly is the number of scenes of the job.
C14_OneSegmentPerScene ==
    Handed => Len(rendered) = nscenes

\* C15: in render_single_scene every next attempt after a failed one renders
\* code newly produced by retry_manim_scene_generation.
C15_RetryRendersNewCode ==
    [][\A s \in SceneIds :
         scene_attempt'[s] = scene_attempt[s] + 1 =>
             current_code'[s].gen = current_code[s].gen + 1]_vars

C17_SingleSegmentIsMoved ==
    /\ (assembled /\ Len(rendered) = 1) => gmux = 0
    /\ (lpc \in {"p100", "returned"} /\ lsegs = 1) => ~lmux

\* C18: a non-zero exit of the concatenation tool is fatal: after it no
\* further code generation or render attempt is made.
C18_AssemblyFailureIsFatal ==
    [][/\ lasmfail => (lgens' = lgens /\ lrenders' = lrenders)
       /\ (assembled /\ gpc = "raised") =>
             (wrenders' = wrenders /\ current_code' = current_code)]_vars

\* C19: when video_utils.concatenate_scenes merges segments of which some
\* have audio and some do not, at every moment of the merged video the
\* audio track plays the audio of the segment shown if it is voiced, and
\* silence if it is not.
C19_AudioTimeAligned ==
    (/\ upc = "concat_done"
     /\ Len(segments) > 1
     /\ \E i \in DOMAIN segments : segments[i].voiced
     /\ \E i \in DOMAIN segments : ~segments[i].voiced) =>
        \A tm \in 0..(TotalDuration(VideoParts(segments)) - 1) :
            LET shown == SourceAt(VideoParts(segments), tm)
            IN  SourceAt(track, tm) =
                    IF segments[shown + 1].voiced THEN shown ELSE Silence

\* C20: when every synthesis call fails, generate_speech makes the initial
\* call and MAX_RETRIES retries, MAX_RETRIES + 1 calls in all, before it
\* returns False.
C20_SpeechRetriesTwice ==
    (upc = "speech_done" /\ sresult = "false" /\ sallfail) =>
        scalls = MAX_RETRIES + 1

\* C24: while a job waits for its renderer child process the event loop is
\* free to serve a job-status query.
C24_LoopFreeDuringChild ==
    \A j \in JobIds : pc[j] = "rendering" => LoopFree

\* C26: with several jobs running, each step of the request handler or
\* background task of a job leaves the job-table entry of every other job
\* as it is.
C26_OnlyOwnEntryChanges ==
    [][\A j \in JobIds :
         (GenerateVideo(j) \/ AudioReady(j) \/ TaskStep(j)) =>
             \A k \in DOMAIN jobs : k # j => jobs'[k] = jobs[k]]_vars

C26_Witness ==
    /\ DOMAIN jobs = JobIds
    /\ pc[1] = "p70" /\ jobs[1].progress = 70
    /\ pc[2] = "p20" /\ jobs[2].progress = 20

\* C27: the request for a new video fails only if the job entry could not
\* be made: a failure of planning, of the narration script or of speech
\* synthesis does not fail the request of a job that is in the table.
C27_RequestFailsOnlyAtCreation ==
    \A j \in JobIds : pc[j] = "rejected" => j \notin DOMAIN jobs

\* the pipeline steps of the multi-scene pipeline in dependency order
StepOrder == <<"plan", "audio", "code", "render", "assemble">>

\* C25: in the multi-scene pipeline the steps start in strict dependency
\* order (plan, audio, scene code, rendering, concatenation) and a step
\* starts only after the step before it has succeeded
C25_StepsInDependencyOrder ==
    /\ Len(gsteps) <= Len(StepOrder)
    /\ \A i \in DOMAIN gsteps :
          /\ gsteps[i] = StepOrder[i]
          /\ i > 1 => gsteps[i - 1] \in gdone
C25_Witness ==
    /\ gpc = "returned"
    /\ gsteps = StepOrder
    /\ gdone = {"plan", "audio", "code", "render", "assemble"}

\* C21: in generate_speech, when a synthesis call succeeds but writing the
\* audio to disk raises an I/O error, the function has returned False and
\* no synthesis call follows the one whose audio could not be written
C21_WriteErrorReturnsAtOnce ==
    sioat > 0 => /\ upc = "speech_done"
                 /\ sresult = "false"
                 /\ scalls = sioat
C21_Witness ==
    /\ sioat = 1
    /\ speech_attempt = 0
    /\ speech_attempt < MAX_RETRIES - 1
    /\ upc = "speech_done"
    /\ sresult = "false"

\* C22: generate_audio returns exactly one AudioFile per script, in script
\* order, or raises: it never returns a shorter list, and one failed scene
\* makes the whole step fail
C22_AudioAllOrNothing ==
    /\ upc \in {"audio_loop", "audio_returned", "audio_raised"}
    /\ upc = "audio_returned" =>
          /\ Len(audio_files) = nscripts
          /\ \A i \in DOMAIN audio_files : audio_files[i].path = i
    /\ afailed => upc = "audio_raised"
C22_Witness ==
    /\ upc = "audio_raised"
    /\ afailed
    /\ nscripts = MaxScripts
    /\ Len(audio_files) = 2

\* the ids of the components of a design
IdsOf(d) == {d.components[i] : i \in DOMAIN d.components}

\* C23: generate_concepts never returns a plan in which a relationship's
\* source or target is not the id of a component of the same plan
C23_NoDanglingRelationship ==
    upc = "plan_returned" =>
        \A i \in DOMAIN content.relationships :
            /\ content.relationships[i].source \in IdsOf(content)
            /\ content.relationships[i].target \in IdsOf(content)

\* a header of the form bytes=start-end, the end possibly missing, with
\* 0 <= start <= end < S
RangeAccepted(h, S) ==
    /\ h.unit
    /\ Len(h.fields) = 2
    /\ h.fields[1] >= 0
    /\ h.fields[2] >= 0 \/ h.fields[2] = EmptyField
    /\ LET start == h.fields[1]
           end == IF h.fields[2] = EmptyField THEN S - 1 ELSE h.fields[2]
       IN start <= end /\ end < S

\* C28: for an existing file of size S the answer is 206 with
\* content_length end - start + 1 and Content-Range start-end/S exactly when
\* the header is bytes=start-end with 0 <= start <= end < S (a missing end
\* meaning S - 1), 416 for every other range header, and 200 with
\* content_length S without a range header
C28_RangeAnswers ==
    \A i \in DOMAIN responses :
        vexists =>
            LET r == responses[i]
                S == Len(vfile)
                h == range_header
            IN IF ~h.given
               THEN r.status_code = 200 /\ r.content_length = S
               ELSE IF RangeAccepted(h, S)
               THEN LET start == h.fields[1]
                        end == IF h.fields[2] = EmptyField THEN S - 1
                               ELSE h.fields[2]
                    IN r = Answer(206, end - start + 1, <<start, end, S>>)
               ELSE r.status_code = 416

\* C29: for an unchanged file the same range requested twice gets the same
\* Content-Range and the same bytes, and for every range accepted with 206
\* read_video_chunk(start, content_length) returns exactly content_length
\* bytes, those from start to end
C29_RangeReadsIdempotent ==
    /\ \A i, k \in DOMAIN responses : responses[i] = responses[k]
    /\ \A i, k \in DOMAIN chunks :
          chunks[i].ok /\ chunks[k].ok => chunks[i].bytes = chunks[k].bytes
    /\ \A i \in DOMAIN chunks :
          LET r == responses[chunks[i].of]
          IN chunks[i].ok /\ r.status_code = 206 =>
                /\ Len(chunks[i].bytes) = r.content_length
                /\ chunks[i].bytes = SubSeq(vfile, r.content_range[1] + 1,
                                            r.content_range[2] + 1)
C29_Witness ==
    /\ Len(responses) = MaxRequests
    /\ Len(chunks) = MaxRequests
    /\ responses[1].status_code = 206
    /\ responses[1].content_range = <<1, 2, 3>>
    /\ chunks[1].ok /\ chunks[2].ok
    /\ chunks[1].bytes = <<1, 0>>

\* the files of a disk that are not in the videos directory
Outside(d) ==
    {f \in d : ~(Len(f) > Len(VIDEOS_DIR)
                 /\ SubSeq(f, 1, Len(VIDEOS_DIR)) = VIDEOS_DIR)}

\* C30: delete_videos answers every filename containing "/" or "\" with an
\* "Invalid filename" error and does not look at the disk for it; it never
\* removes a file outside the videos directory; and it returns exactly one
\* result per filename, in input order
C30_DeleteStaysInVideosDir ==
    /\ Len(results) <= Len(filenames)
    /\ upc = "delete_returned" => Len(results) = Len(filenames)
    /\ \A i \in DOMAIN results :
          /\ results[i].filename = filenames[i]
          /\ (\E k \in DOMAIN filenames[i] : filenames[i][k] \in Separators)
                => /\ results[i].status = "error"
                   /\ results[i].message = "Invalid filename"
                   /\ i \notin dtouched
    /\ Outside(disk0) \subseteq disk
    /\ disk \subseteq disk0
C30_Witness ==
    /\ upc = "delete_returned"
    /\ filenames = << <<"/", "a">>, <<"a">> >>
    /\ results[1].message = "Invalid filename"
    /\ results[2].message = "Deleted"
    /\ Outside(disk0) = OutsideFiles
\* C31: a job id entered in the job table is never removed, so
\* get_job_status answers 404 exactly for ids that were never created and
\* otherwise returns the current record; the lookup changes nothing in
\* the table
C31_LookupOfCreatedJob ==
    [][/\ DOMAIN jobs \subseteq DOMAIN jobs'
       /\ \A q \in JobIds :
             GetJobStatus(q) =>
                /\ jobs' = jobs
                /\ reply'[1] = q
                /\ q \in DOMAIN jobs => reply' = <<q, 200, jobs[q]>>
                /\ q \notin DOMAIN jobs => /\ reply'[2] = 404
                                           /\ pc[q] = "idle"]_vars
C31_Witness ==
    /\ Len(reply) = 3
    /\ reply[1] = 1
    /\ reply[2] = 200
    /\ reply[3].status = FAILED
    /\ jobs[1].status = FAILED
\* C32: in debug mode the file fail-s-k holds the code that was rendered in
\* the failed attempt k of scene s, and success-s-k the code rendered in the
\* successful attempt
C32_DebugFilesHoldRenderedCode ==
    \A s \in SceneIds : \A f \in debug_files[s] : f.code = f.rendered

\* C36: whatever the failures, render_single_scene invokes the renderer at
\* most max_retries + 1 times and retry_manim_scene_generation at most
\* max_retries times; every pass through its loop ends the call or advances
\* scene_attempt, which never exceeds max_retries, so the raise after the
\* loop is not reached
C36_SceneWorkerBounded ==
    [][\A s \in SceneIds :
         /\ scene_attempt'[s] <= max_retries
         /\ wrenders'[s] <= max_retries + 1
         /\ wfixes'[s] <= max_retries
         /\ SceneAttempt(s) =>
               \/ wpc'[s] \in {"done", "failed"}
               \/ scene_attempt'[s] = scene_attempt[s] + 1]_vars
C36_Witness ==
    /\ wpc[0] = "failed"
    /\ whist[0] = "mixed"
    /\ wrenders[0] = max_retries + 1
    /\ wfixes[0] = max_retries
    /\ wnofix[0] = 1

\* C37: when retry_manim_scene_generation returns no code after a render
\* failure the scene fails at once: the renderer is not invoked again for it
C37_NoFixFailsAtOnce ==
    \A s \in SceneIds :
        wnofix[s] > 0 => wpc[s] = "failed" /\ wrenders[s] = wnofix[s]
\* C33: every update_progress is followed by a suspension point before the
\* next step of the pipeline (the event loop is free, which is all
\* get_job_status waits for), so a status query can observe each checkpoint
\* value before it is overwritten
C33_CheckpointObservable ==
    [][\A j \in DOMAIN jobs :
         (jobs'[j] # jobs[j] /\ jobs'[j].status = IN_PROGRESS) =>
             /\ jobs'[j].progress \in {20, 40, 60, 70, 80, 90}
             /\ loop' = None]_vars
C33_Witness ==
    /\ pc[1] = "p70"
    /\ Len(reply) = 3
    /\ reply[1] = 1
    /\ reply[3] = JobMetadata(IN_PROGRESS, 70, None)
C38_RetryUsesRepairPrompt ==
    \A j \in JobIds :
        (prompt[j].kind # "none" /\ prompt[j].attempt > 0) =>
            /\ prompt[j].kind = "repair"
            /\ prompt[j].attempt = attempt[j] =>
                  /\ last_code[j].kind \in {"scene", "noscene"}
                  /\ last_code[j].gen = attempt[j] - 1
                  /\ last_error[j] # "none"
\* C39: when several scenes of a job fail, every scene worker runs to its own
\* outcome: no scene is ended by the failure of another one, and the error
\* render_scenes_in_parallel raises is the own error of the lowest-indexed
\* failed scene
C39_EveryWorkerRunsToItsOutcome ==
    Cardinality({s \in JobScenes : wpc[s] = "failed"}) > 1 =>
    /\ \A s \in JobScenes : werror[s] # "BrokenProcessPool"
    /\ gerror # <<>> =>
          /\ \A s \in JobScenes : wpc[s] = "failed" => gerror[1] <= s
          /\ wpc[gerror[1]] = "failed"
          /\ gerror[2] = werror[gerror[1]]
          /\ gerror[2] \in {"CalledProcessError", "HTTPException", "Exception"}
\* C40: in videos/video_utils.generate_and_render_video the value handed to
\* update_progress never decreases, across retry attempts too, and 100 is
\* handed over only once the final video is stored at its output path
C40_LegacyProgressMonotone ==
    [][ /\ lprogress' >= lprogress
        /\ (lprogress' = 100 /\ lprogress # 100) =>
               <<"videos", -1>> \in files' ]_vars
\* C34: parallel scene workers of one job never write to the same scratch
\* location: every file under a worker directory was written for the scene
\* of that directory, the renderer of a scene reads the source its own
\* worker wrote, and a worker collects only videos rendered from its own
\* scene
C34_WorkersShareNoScratchFile ==
    /\ \A p \in DOMAIN scratch :
          /\ p.worker = scratch[p].scene + 1
          /\ p.scene = scratch[p].scene + 1
    /\ \A s \in SceneIds :
          /\ \A c \in sreads[s] : c.scene = s
          /\ \A c \in sgot[s] : c.scene = s
          /\ spc[s] = "render" =>
                scratch[scene_file(s)] = [scene |-> s, attempt |-> sattempt[s]]
C34_Witness ==
    /\ \A s \in SceneIds : spc[s] = "done" /\ sgot[s] # {}
    /\ sattempt[0] > 0
    /\ sattempt[1] = 0
====
